---- MODULE Spec2Model ----
\* A model of the write-ahead log of wal.go: one active segment, a map of
\* older segments, the staged batch, rotation, the multi-segment reader.
\* The segment layer (chunk framing, positional read, segment reader) is not
\* part of wal.go; it is modelled from the design document (sections 3, 4.1,
\* 4.3) and marked as such where it is defined.
EXTENDS Integers, Sequences, FiniteSets, TLC

\* ---------------------------------------------------------------- constants

\* B, the fixed block size (32 KiB), and H, the chunk header size.
blockSize == 32768
chunkHeaderSize == 7
initialSegmentFileID == 1

\* ------------------------------------------------------------------- bounds

\* Payloads ever handed to Write or PendingWrites in one behaviour.
MaxPayloads == 2
\* Longest staged batch.
MaxPending == 2
\* Highest segment id: an operation that would rotate past it is not called.
MaxSegments == 2
\* Threads of the concurrent specification.
MaxThreads == 2

\* options.SegmentSize of every behaviour: two blocks, so that records of one,
\* two and three chunks are accepted by the size checks.
SegmentSize == 2 * blockSize

\* The file extensions the callers use.
Exts == {".SEG", ".BAK"}

\* The options the WAL is opened with (DirPath and BlockCache play no part in
\* the operations modelled).
OptionSet ==
    { [SegmentSize |-> SegmentSize, DiskFlushSync |-> TRUE, BytesPerSync |-> 0,
       DiskFileExtension |-> ".SEG"],
      [SegmentSize |-> SegmentSize, DiskFlushSync |-> FALSE, BytesPerSync |-> blockSize,
       DiskFileExtension |-> ".SEG"] }

\* Payload lengths the callers use: a short one, one that leaves a block
\* trailer shorter than a header (and, after the short one, takes two
\* chunks), the longest the size check of Write accepts (three chunks), one
\* it rejects.
Lens ==
    { 10,
      blockSize - chunkHeaderSize - 3,
      SegmentSize - chunkHeaderSize,
      SegmentSize }

\* The system call of an operation that fails, if any (an operation returns at
\* its first failure): the Sync of a rotation, the opening of the next segment
\* file, the append, the Sync after an append.
IOOutcomes == {"none", "sync", "open", "write", "flush"}

\* -------------------------------------------------------------------- bytes

\* A byte string is a slice [from, to) of the payload numbered tag; payload
\* number k of length n is Bytes(k, 0, n). Distinct tags are distinct contents.
Bytes(tag, from, to) == [tag |-> tag, from |-> from, to |-> to]
Payload(tag, n) == Bytes(tag, 0, n)
SliceLen(d) == d.to - d.from
\* data[a:b]
Slice(d, a, b) == Bytes(d.tag, d.from + a, d.from + b)
NoBytes == Bytes(0, 0, 0)
Garbled == Bytes(-1, 0, 0)
\* append(acc, d...): the bytes of acc followed by the bytes of d.
Concat(acc, d) ==
    IF acc = NoBytes THEN d
    ELSE IF acc.tag = d.tag /\ acc.to = d.from THEN Bytes(acc.tag, acc.from, d.to)
    ELSE Garbled

NoPosition == [SegmentId |-> 0, BlockNumber |-> 0, ChunkOffset |-> 0, ChunkSize |-> 0]

VARIABLES
    options,         \* wal.options
    activeSegment,   \* wal.activeSegment
    olderSegments,   \* wal.olderSegments: id -> segment
    bytesWrite,      \* wal.bytesWrite (uint32; below 2^20 within the bounds)
    pendingWrites,   \* wal.pendingWrites
    pendingSize,     \* wal.pendingSize
    nextTag,         \* number of the next payload that is staged or appended
    written,         \* the successful writes so far: <<[data, pos], ...>>
    lastOp,          \* the operation the single client ran last, and its result
    mu,              \* wal.mu: the thread that holds the write lock, or 0
    pc,              \* where each thread is in its call
    call,            \* each thread's call: its payload, its result, and the
                     \* number of calls that had returned when it began
    returned,        \* the results of the calls that returned, in order
    renameIds,       \* wal.renameIds
    dir              \* the segment files of options.DirPath: <<id, extension>> -> file

threadVars == <<mu, pc, call, returned>>
vars == <<options, activeSegment, olderSegments, bytesWrite, pendingWrites, pendingSize,
          nextTag, written, lastOp, mu, pc, call, returned, renameIds, dir>>


\* ------------------------------------------------------------------ segment
\* The segment layer, from the design document: a segment is its id, its tail
\* (current_block_number, current_block_size), the chunks appended to its
\* file, the file length covered by the last fsync, and the closed flag. A
\* chunk is the block it lies in, the offset of its header in that block, its
\* type and its payload bytes.

Chunk(block, offset, type, data) ==
    [block |-> block, offset |-> offset, type |-> type, data |-> data]

\* Open(dir, ext, id, cache) of a file that does not exist yet.
openSegmentFile(id) ==
    [id |-> id, currentBlockNumber |-> 0, currentBlockSize |-> 0,
     chunks |-> <<>>, syncedSize |-> 0, closed |-> FALSE]

\* Size() = current_block_number * B + current_block_size.
Size(seg) == seg.currentBlockNumber * blockSize + seg.currentBlockSize

\* Sync(): everything appended so far is on stable storage.
SegSync(seg) == [seg EXCEPT !.syncedSize = Size(seg)]

\* Close(): the segment rejects every later operation.
SegClose(seg) == [seg EXCEPT !.closed = TRUE]

\* A segment opened on an existing file: its tail is the file length.
reopenSegmentFile(file) ==
    [file EXCEPT !.currentBlockNumber = Size(file) \div blockSize,
                 !.currentBlockSize = Size(file) % blockSize,
                 !.closed = FALSE]

\* Encode, the chunks after the FIRST one: MIDDLE chunks fill whole blocks
\* (B - H payload bytes each), the LAST chunk holds the tail (<= B - H bytes).
RECURSIVE EncodeRest(_, _, _)
EncodeRest(data, from, block) ==
    LET left == SliceLen(data) - from
        room == blockSize - chunkHeaderSize
    IN  IF left <= room
        THEN << Chunk(block, 0, "LAST", Slice(data, from, SliceLen(data))) >>
        ELSE << Chunk(block, 0, "MIDDLE", Slice(data, from, from + room)) >>
             \o EncodeRest(data, from + room, block + 1)

\* Encode(payload, dst_block_remaining): FULL when the payload fits in what
\* is left of the block after the header, else FIRST takes what is left and
\* the rest goes to the following blocks.
Encode(data, block, offset) ==
    LET room == blockSize - offset - chunkHeaderSize
    IN  IF SliceLen(data) <= room
        THEN << Chunk(block, offset, "FULL", data) >>
        ELSE << Chunk(block, offset, "FIRST", Slice(data, 0, room)) >>
             \o EncodeRest(data, room, block + 1)

\* Step 2 of the segment's Write: a block trailer shorter than a header is
\* padded with zeros and the next block begins.
PadTail(seg) ==
    IF blockSize - seg.currentBlockSize < chunkHeaderSize
    THEN [seg EXCEPT !.currentBlockNumber = @ + 1, !.currentBlockSize = 0]
    ELSE seg

\* Segment Write(payload) that succeeds: the segment after it and the position
\* returned. The position locates the header of the record's first chunk
\* (section 3, "Chunk position"); chunk_size is the footprint from that header
\* to the final byte of the last chunk.
SegWrite(seg, data) ==
    LET p == PadTail(seg)
        cs == Encode(data, p.currentBlockNumber, p.currentBlockSize)
        last == cs[Len(cs)]
    IN  [seg |-> [p EXCEPT !.chunks = @ \o cs,
                           !.currentBlockNumber = last.block,
                           !.currentBlockSize =
                               last.offset + chunkHeaderSize + SliceLen(last.data)],
         pos |-> [SegmentId |-> seg.id,
                  BlockNumber |-> p.currentBlockNumber,
                  ChunkOffset |-> p.currentBlockSize,
                  ChunkSize |-> Len(cs) * chunkHeaderSize + SliceLen(data)]]

\* Segment WriteAll(payloads) that succeeds: the same framing, payload after
\* payload, one position per payload, in order.
RECURSIVE SegWriteAll(_, _)
SegWriteAll(seg, payloads) ==
    IF payloads = <<>>
    THEN [seg |-> seg, positions |-> <<>>]
    ELSE LET one == SegWrite(seg, Head(payloads))
             rest == SegWriteAll(one.seg, Tail(payloads))
         IN  [seg |-> rest.seg, positions |-> <<one.pos>> \o rest.positions]

\* The chunk of the segment's file whose header is at (block, offset), if any.
ChunksAt(seg, block, offset) ==
    { i \in DOMAIN seg.chunks :
        seg.chunks[i].block = block /\ seg.chunks[i].offset = offset }
ChunkAt(seg, block, offset) == seg.chunks[CHOOSE i \in ChunksAt(seg, block, offset) : TRUE]

ReadError(err) ==
    [err |-> err, data |-> NoBytes, size |-> 0, nextBlock |-> 0, nextOffset |-> 0]

\* Where the chunk after c starts: behind c, or at the next block when what is
\* left of the block is trailer padding.
NextChunkAfter(c) ==
    LET end == c.offset + chunkHeaderSize + SliceLen(c.data)
    IN  IF blockSize - end < chunkHeaderSize
        THEN [block |-> c.block + 1, offset |-> 0]
        ELSE [block |-> c.block, offset |-> end]

\* A record read to its last chunk c: its bytes, its footprint, and where the
\* next chunk starts.
ReadDone(data, size, c) ==
    [err |-> "nil", data |-> data, size |-> size,
     nextBlock |-> NextChunkAfter(c).block, nextOffset |-> NextChunkAfter(c).offset]

\* Step 3 of the segment's Read: after a FIRST chunk, the MIDDLE and LAST
\* chunks are decoded at offset 0 of the following blocks.
RECURSIVE ReadRest(_, _, _, _)
ReadRest(seg, block, acc, size) ==
    IF ChunksAt(seg, block, 0) = {}
    THEN ReadError("UnexpectedEOF")
    ELSE LET c == ChunkAt(seg, block, 0)
             n == size + chunkHeaderSize + SliceLen(c.data)
         IN  IF c.type = "MIDDLE"
             THEN ReadRest(seg, block + 1, Concat(acc, c.data), n)
             ELSE IF c.type = "LAST"
             THEN ReadDone(Concat(acc, c.data), n, c)
             ELSE ReadError("CorruptChunk")

\* Segment Read(block_number, chunk_offset): the record whose first chunk is
\* at that place. Past the last chunk of the file there is nothing to decode.
SegRead(seg, blockNumber, chunkOffset) ==
    IF ChunksAt(seg, blockNumber, chunkOffset) = {}
    THEN ReadError(IF blockNumber * blockSize + chunkOffset >= Size(seg)
                   THEN "EOF" ELSE "CorruptChunk")
    ELSE LET c == ChunkAt(seg, blockNumber, chunkOffset)
             n == chunkHeaderSize + SliceLen(c.data)
         IN  IF c.type = "FULL"
             THEN ReadDone(c.data, n, c)
             ELSE IF c.type = "FIRST"
             THEN ReadRest(seg, blockNumber + 1, Concat(NoBytes, c.data), n)
             ELSE ReadError("CorruptChunk")

\* Segment NewReader(): a cursor at the start of the segment.
SegNewReader(seg) == [id |-> seg.id, blockNumber |-> 0, chunkOffset |-> 0]

\* Segment reader Next(): a Read at the cursor, which then moves past the last
\* chunk of the record; EOF past the last chunk of the segment.
SegReaderNext(seg, rd) ==
    LET r == SegRead(seg, rd.blockNumber, rd.chunkOffset)
    IN  [err |-> r.err,
         data |-> r.data,
         pos |-> IF r.err = "nil"
                 THEN [SegmentId |-> seg.id, BlockNumber |-> rd.blockNumber,
                       ChunkOffset |-> rd.chunkOffset, ChunkSize |-> r.size]
                 ELSE NoPosition,
         rd |-> IF r.err = "nil"
                THEN [rd EXCEPT !.blockNumber = r.nextBlock, !.chunkOffset = r.nextOffset]
                ELSE rd]

\* ---------------------------------------------------------------------- WAL

\* The part of the WAL that the main lock protects.
Wal == [activeSegment |-> activeSegment, olderSegments |-> olderSegments,
        bytesWrite |-> bytesWrite]

\* m[k] = v of a Go map.
MapPut(m, k, v) == [x \in DOMAIN m \cup {k} |-> IF x = k THEN v ELSE m[x]]

maxDataWriteSize(size) ==
    chunkHeaderSize + size + (size \div blockSize + 1) * chunkHeaderSize

isFull(w, delta) ==
    Size(w.activeSegment) + maxDataWriteSize(delta) > options.SegmentSize

\* A rotation that opens the next segment under the id of the active one.
rotateReusesId(w, io) ==
    IF io = "sync"
    THEN [err |-> "IoError", w |-> w, syncs |-> 1]
    ELSE LET w1 == [w EXCEPT !.activeSegment = SegSync(@), !.bytesWrite = 0]
         IN  IF io = "open"
             THEN [err |-> "IoError", w |-> w1, syncs |-> 1]
             ELSE [err |-> "nil", syncs |-> 1,
                   w |-> [w1 EXCEPT
                       !.olderSegments = MapPut(@, w1.activeSegment.id, w1.activeSegment),
                       !.activeSegment = openSegmentFile(w1.activeSegment.id)]]

\* A rotation that does not keep the segment it replaces.
rotateDropsActive(w, io) ==
    IF io = "sync"
    THEN [err |-> "IoError", w |-> w, syncs |-> 1]
    ELSE LET w1 == [w EXCEPT !.activeSegment = SegSync(@), !.bytesWrite = 0]
         IN  IF io = "open"
             THEN [err |-> "IoError", w |-> w1, syncs |-> 1]
             ELSE [err |-> "nil", syncs |-> 1,
                   w |-> [w1 EXCEPT
                       !.activeSegment = openSegmentFile(w1.activeSegment.id + 1)]]

\* A rotation that does not sync the segment it replaces.
rotateWithoutSync(w, io) ==
    IF io = "sync"
    THEN [err |-> "IoError", w |-> w, syncs |-> 1]
    ELSE LET w1 == [w EXCEPT !.bytesWrite = 0]
         IN  IF io = "open"
             THEN [err |-> "IoError", w |-> w1, syncs |-> 1]
             ELSE [err |-> "nil", syncs |-> 1,
                   w |-> [w1 EXCEPT
                       !.olderSegments = MapPut(@, w1.activeSegment.id, w1.activeSegment),
                       !.activeSegment = openSegmentFile(w1.activeSegment.id + 1)]]

\* The result of rotateActiveSegment on w: sync the active segment, reset
\* bytesWrite, open segment id + 1, move the active one to the older map.
rotateActiveSegment(w, io) ==
    IF io = "sync"
    THEN [err |-> "IoError", w |-> w, syncs |-> 1]
    ELSE LET w1 == [w EXCEPT !.activeSegment = SegSync(@), !.bytesWrite = 0]
         IN  IF io = "open"
             THEN [err |-> "IoError", w |-> w1, syncs |-> 1]
             ELSE [err |-> "nil", syncs |-> 1,
                   w |-> [w1 EXCEPT
                       !.olderSegments = MapPut(@, w1.activeSegment.id, w1.activeSegment),
                       !.activeSegment = openSegmentFile(w1.activeSegment.id + 1)]]

\* A size check that leaves the header out.
dataSizeTooLargeNoHeader(data) ==
    SliceLen(data) > options.SegmentSize

\* The size check of Write.
dataSizeTooLarge(data) ==
    SliceLen(data) + chunkHeaderSize > options.SegmentSize

\* Whether Write syncs the active segment after the append.
needSync(bw) ==
    options.DiskFlushSync \/ (options.BytesPerSync > 0 /\ bw >= options.BytesPerSync)

WriteReturn(err, pos, w, syncs) == [err |-> err, pos |-> pos, w |-> w, syncs |-> syncs]

\* An append whose sync leaves bytesWrite as it is.
writeToActiveKeepsCount(w, data, io, syncs) ==
    IF io = "write"
    THEN WriteReturn("IoError", NoPosition, w, syncs)
    ELSE LET a == SegWrite(w.activeSegment, data)
             bw == w.bytesWrite + a.pos.ChunkSize
             w1 == [w EXCEPT !.activeSegment = a.seg, !.bytesWrite = bw]
         IN  IF needSync(bw)
             THEN IF io = "flush"
                  THEN WriteReturn("IoError", NoPosition, w1, syncs + 1)
                  ELSE WriteReturn("nil", a.pos,
                                   [w1 EXCEPT !.activeSegment = SegSync(@)],
                                   syncs + 1)
             ELSE WriteReturn("nil", a.pos, w1, syncs)

\* Write, after the rotation step: the append, the bytesWrite update and the
\* sync.
writeToActive(w, data, io, syncs) ==
    IF io = "write"
    THEN WriteReturn("IoError", NoPosition, w, syncs)
    ELSE LET a == SegWrite(w.activeSegment, data)
             bw == w.bytesWrite + a.pos.ChunkSize
             w1 == [w EXCEPT !.activeSegment = a.seg, !.bytesWrite = bw]
         IN  IF needSync(bw)
             THEN IF io = "flush"
                  THEN WriteReturn("IoError", NoPosition, w1, syncs + 1)
                  ELSE WriteReturn("nil", a.pos,
                                   [w1 EXCEPT !.activeSegment = SegSync(@),
                                              !.bytesWrite = 0],
                                   syncs + 1)
             ELSE WriteReturn("nil", a.pos, w1, syncs)

\* The body of Write under the main lock: what it returns and the WAL after it.
WriteBody(w, data, io) ==
    IF dataSizeTooLarge(data)
    THEN WriteReturn("ErrDataSizeTooLarge", NoPosition, w, 0)
    ELSE IF isFull(w, SliceLen(data))
    THEN LET r == rotateActiveSegment(w, io)
         IN  IF r.err # "nil"
             THEN WriteReturn(r.err, NoPosition, r.w, r.syncs)
             ELSE writeToActive(r.w, data, io, r.syncs)
    ELSE writeToActive(w, data, io, 0)

\* A Read that looks in the active segment only.
ReadActiveOnly(w, pos) ==
    SegRead(w.activeSegment, pos.BlockNumber, pos.ChunkOffset)

\* Read(pos): the segment is the active one or one of the older map.
Read(w, pos) ==
    IF pos.SegmentId = w.activeSegment.id
    THEN SegRead(w.activeSegment, pos.BlockNumber, pos.ChunkOffset)
    ELSE IF pos.SegmentId \in DOMAIN w.olderSegments
    THEN SegRead(w.olderSegments[pos.SegmentId], pos.BlockNumber, pos.ChunkOffset)
    ELSE ReadError("SegmentNotFound")


\* The segment object with the given id (a reader holds pointers to segments).
SegmentById(w, id) ==
    IF id = w.activeSegment.id THEN w.activeSegment ELSE w.olderSegments[id]

\* sort.Slice by segment id, ascending.
RECURSIVE SortById(_)
SortById(ids) ==
    IF ids = {}
    THEN <<>>
    ELSE LET m == CHOOSE x \in ids : \A y \in ids : x <= y
         IN  <<m>> \o SortById(ids \ {m})

\* The order in which the reader walks the segments with the given ids.
readerOrder(ids) == SortById(ids)

\* NewReaderWithMax(segId): readers of the older segments and of the active
\* one whose id is at most segId (of all when segId is 0), sorted by id.
NewReaderWithMax(w, segId) ==
    LET ids == { id \in DOMAIN w.olderSegments \cup {w.activeSegment.id} :
                   segId = 0 \/ id <= segId }
        order == readerOrder(ids)
    IN  [segmentReaders |-> [i \in DOMAIN order |-> SegNewReader(SegmentById(w, order[i]))],
         currentReader |-> 0]

NewReader(w) == NewReaderWithMax(w, 0)

NextReturn(r, data, pos, err) == [reader |-> r, data |-> data, pos |-> pos, err |-> err]

\* Next() that ends the iteration at the first EOF of a segment reader.
ReaderNextStopsAtSegmentEOF(w, r) ==
    IF r.currentReader >= Len(r.segmentReaders)
    THEN NextReturn(r, NoBytes, NoPosition, "EOF")
    ELSE LET rd == r.segmentReaders[r.currentReader + 1]
             n == SegReaderNext(SegmentById(w, rd.id), rd)
         IN  NextReturn([r EXCEPT !.segmentReaders[r.currentReader + 1] = n.rd],
                        n.data, n.pos, n.err)

\* Reader.Next(): forwards to the current segment reader; on its EOF the next
\* segment reader becomes current and Next is tried again.
RECURSIVE ReaderNext(_, _)
ReaderNext(w, r) ==
    IF r.currentReader >= Len(r.segmentReaders)
    THEN NextReturn(r, NoBytes, NoPosition, "EOF")
    ELSE LET rd == r.segmentReaders[r.currentReader + 1]
             n == SegReaderNext(SegmentById(w, rd.id), rd)
         IN  IF n.err = "EOF"
             THEN ReaderNext(w, [r EXCEPT !.currentReader = @ + 1])
             ELSE NextReturn([r EXCEPT !.segmentReaders[r.currentReader + 1] = n.rd],
                             n.data, n.pos, n.err)

\* A client calling Next() on r until it returns an error: the records it is
\* given and the error that ends the iteration.
RECURSIVE Iterate(_, _)
Iterate(w, r) ==
    LET n == ReaderNext(w, r)
    IN  IF n.err # "nil"
        THEN [records |-> <<>>, err |-> n.err]
        ELSE LET rest == Iterate(w, n.reader)
             IN  [records |-> <<[data |-> n.data, pos |-> n.pos]>> \o rest.records,
                  err |-> rest.err]

\* Reader.SkipCurrentSegment()
SkipCurrentSegment(r) == [r EXCEPT !.currentReader = @ + 1]

\* A start test that compares the chunk offsets only.
startReachedByOffset(rd, startPos) ==
    rd.chunkOffset >= startPos.ChunkOffset

\* The test of NewReaderWithStart that ends the skipping: the cursor rd of the
\* current segment reader against the start position.
startReached(rd, startPos) ==
    /\ rd.blockNumber >= startPos.BlockNumber
    /\ rd.chunkOffset >= startPos.ChunkOffset

SeekReturn(r, err) == [reader |-> r, err |-> err]

\* The loop of NewReaderWithStart on reader r. CurrentSegmentId and
\* CurrentChunkPosition index segmentReaders[currentReader]: past the last
\* segment reader the index is out of range and the call panics.
RECURSIVE SeekStart(_, _, _)
SeekStart(w, r, startPos) ==
    IF r.currentReader >= Len(r.segmentReaders)
    THEN SeekReturn(r, "IndexOutOfRange")
    ELSE LET rd == r.segmentReaders[r.currentReader + 1]
         IN  IF rd.id < startPos.SegmentId
             THEN SeekStart(w, SkipCurrentSegment(r), startPos)
             ELSE IF startReached(rd, startPos)
             THEN SeekReturn(r, "nil")
             ELSE LET n == ReaderNext(w, r)
                  IN  IF n.err = "EOF"
                      THEN SeekReturn(n.reader, "nil")
                      ELSE IF n.err # "nil"
                      THEN SeekReturn(n.reader, n.err)
                      ELSE SeekStart(w, n.reader, startPos)

\* NewReaderWithStart(startPos), for a startPos that is not nil.
NewReaderWithStart(w, startPos) == SeekStart(w, NewReader(w), startPos)

\* An emptiness test that looks at the active segment only.
IsEmptyActiveOnly(w) == Size(w.activeSegment) = 0

\* IsEmpty()
IsEmpty(w) == DOMAIN w.olderSegments = {} /\ Size(w.activeSegment) = 0

\* The size check of WriteAll.
pendingSizeTooLarge(size) == size > options.SegmentSize

\* The rotation check of WriteAll.
pendingIsFull(w, size) == Size(w.activeSegment) + size > options.SegmentSize

WriteAllReturn(err, positions, w, syncs) ==
    [err |-> err, positions |-> positions, w |-> w, syncs |-> syncs]

\* A WriteAll that hands the batch without its first payload to the segment.
writeAllSkipsFirst(w, payloads, io, syncs) ==
    IF io = "write"
    THEN WriteAllReturn("IoError", <<>>, w, syncs)
    ELSE LET a == SegWriteAll(w.activeSegment, Tail(payloads))
         IN  WriteAllReturn("nil", a.positions, [w EXCEPT !.activeSegment = a.seg], syncs)

\* WriteAll, after the rotation step: the batch goes to the active segment.
writeAllToActive(w, payloads, io, syncs) ==
    IF io = "write"
    THEN WriteAllReturn("IoError", <<>>, w, syncs)
    ELSE LET a == SegWriteAll(w.activeSegment, payloads)
         IN  WriteAllReturn("nil", a.positions, [w EXCEPT !.activeSegment = a.seg], syncs)

\* A WriteAll that checks the batch size after the rotation step.
WriteAllBodyRotatesFirst(w, payloads, size, io) ==
    IF pendingIsFull(w, size)
    THEN LET r == rotateActiveSegment(w, io)
         IN  IF r.err # "nil"
             THEN WriteAllReturn(r.err, <<>>, r.w, r.syncs)
             ELSE IF pendingSizeTooLarge(size)
             THEN WriteAllReturn("ErrPendingSizeTooLarge", <<>>, r.w, r.syncs)
             ELSE writeAllToActive(r.w, payloads, io, r.syncs)
    ELSE IF pendingSizeTooLarge(size)
    THEN WriteAllReturn("ErrPendingSizeTooLarge", <<>>, w, 0)
    ELSE writeAllToActive(w, payloads, io, 0)

\* The body of WriteAll under the main lock, for a batch of the given size.
WriteAllBody(w, payloads, size, io) ==
    IF pendingSizeTooLarge(size)
    THEN WriteAllReturn("ErrPendingSizeTooLarge", <<>>, w, 0)
    ELSE IF pendingIsFull(w, size)
    THEN LET r == rotateActiveSegment(w, io)
         IN  IF r.err # "nil"
             THEN WriteAllReturn(r.err, <<>>, r.w, r.syncs)
             ELSE writeAllToActive(r.w, payloads, io, r.syncs)
    ELSE writeAllToActive(w, payloads, io, 0)

\* A WriteAll that returns without clearing the staged batch.
keptPending == [pendingWrites |-> pendingWrites, pendingSize |-> pendingSize]

\* The staged batch after the deferred ClearPendingWrites of WriteAll.
clearedPending == [pendingWrites |-> <<>>, pendingSize |-> 0]

\* The result of OpenNewActiveSegment on w.
OpenNewActiveSegmentBody(w, io) ==
    IF io = "sync"
    THEN [err |-> "IoError", w |-> w, syncs |-> 1]
    ELSE LET w1 == [w EXCEPT !.activeSegment = SegSync(@)]
         IN  IF io = "open"
             THEN [err |-> "IoError", w |-> w1, syncs |-> 1]
             ELSE [err |-> "nil", syncs |-> 1,
                   w |-> [w1 EXCEPT
                       !.olderSegments = MapPut(@, w1.activeSegment.id, w1.activeSegment),
                       !.activeSegment = openSegmentFile(w1.activeSegment.id + 1)]]

\* ------------------------------------------------------------------ actions
\* One client calling the operations one after the other.

OpResult(op, err, positions, data, syncs) ==
    [op |-> op, err |-> err, positions |-> positions, data |-> data, syncs |-> syncs]

\* SegmentFileName(dirPath, ext, id)
SegmentFileName(ext, id) == <<id, ext>>

\* The directory d after the segments of w wrote their files through.
Stored(d, w) ==
    LET ids == DOMAIN w.olderSegments \cup {w.activeSegment.id}
        names == {SegmentFileName(options.DiskFileExtension, id) : id \in ids}
    IN  [n \in DOMAIN d \cup names |->
            IF n \in names
            THEN [SegmentById(w, n[1]) EXCEPT !.closed = FALSE]
            ELSE d[n]]

SetWal(w) ==
    /\ activeSegment' = w.activeSegment
    /\ olderSegments' = w.olderSegments
    /\ bytesWrite' = w.bytesWrite
    /\ dir' = Stored(dir, w)

\* The pairs (payload, position) a batch adds to the log.
Records(payloads, positions) ==
    [i \in 1..Len(positions) |-> [data |-> payloads[i], pos |-> positions[i]]]

\* Whether an operation that took the WAL from w to w1 appended to a segment.
Appended(w, w1) ==
    IF w1.activeSegment.id = w.activeSegment.id
    THEN w1.activeSegment.chunks # w.activeSegment.chunks
    ELSE w1.activeSegment.chunks # <<>>

Threads == 1..MaxThreads

NoCall == [data |-> NoBytes, err |-> "nil", pos |-> NoPosition, seen |-> 0]

Init ==
    /\ mu = 0
    /\ pc = [t \in Threads |-> "idle"]
    /\ call = [t \in Threads |-> NoCall]
    /\ returned = <<>>
    /\ options \in OptionSet
    /\ activeSegment = openSegmentFile(initialSegmentFileID)
    /\ olderSegments = [id \in {} |-> openSegmentFile(id)]
    /\ bytesWrite = 0
    /\ pendingWrites = <<>>
    /\ pendingSize = 0
    /\ nextTag = 1
    /\ written = <<>>
    /\ lastOp = OpResult("Open", "nil", <<>>, NoBytes, 0)
    /\ renameIds = <<>>
    /\ dir = [n \in {SegmentFileName(options.DiskFileExtension, initialSegmentFileID)} |->
                 openSegmentFile(initialSegmentFileID)]

Write(data, io) ==
    LET r == WriteBody(Wal, data, io)
    IN  /\ nextTag <= MaxPayloads
        /\ r.w.activeSegment.id <= MaxSegments
        /\ nextTag' = IF Appended(Wal, r.w) THEN nextTag + 1 ELSE nextTag
        /\ SetWal(r.w)
        /\ written' = IF r.err = "nil"
                      THEN Append(written, [data |-> data, pos |-> r.pos])
                      ELSE written
        /\ lastOp' = OpResult("Write", r.err,
                              IF r.err = "nil" THEN <<r.pos>> ELSE <<>>, data, r.syncs)
        /\ UNCHANGED threadVars /\ UNCHANGED <<options, pendingWrites, pendingSize, renameIds>>

PendingWrites(data) ==
    /\ nextTag <= MaxPayloads
    /\ Len(pendingWrites) < MaxPending
    /\ nextTag' = nextTag + 1
    /\ pendingSize' = pendingSize + maxDataWriteSize(SliceLen(data))
    /\ pendingWrites' = Append(pendingWrites, data)
    /\ lastOp' = OpResult("PendingWrites", "nil", <<>>, data, 0)
    /\ UNCHANGED threadVars
    /\ UNCHANGED <<options, activeSegment, olderSegments, bytesWrite, written, renameIds, dir>>

ClearPendingWrites ==
    /\ pendingSize' = 0
    /\ pendingWrites' = <<>>
    /\ lastOp' = OpResult("ClearPendingWrites", "nil", <<>>, NoBytes, 0)
    /\ UNCHANGED threadVars
    /\ UNCHANGED <<options, activeSegment, olderSegments, bytesWrite, nextTag, written,
                   renameIds, dir>>

WriteAll(io) ==
    IF Len(pendingWrites) = 0
    THEN /\ lastOp' = OpResult("WriteAll", "nil", <<>>, NoBytes, 0)
         /\ UNCHANGED threadVars /\ UNCHANGED <<options, activeSegment, olderSegments, bytesWrite,
                        pendingWrites, pendingSize, nextTag, written, renameIds, dir>>
    ELSE LET r == WriteAllBody(Wal, pendingWrites, pendingSize, io)
         IN  /\ r.w.activeSegment.id <= MaxSegments
             /\ SetWal(r.w)
             /\ pendingWrites' = clearedPending.pendingWrites
             /\ pendingSize' = clearedPending.pendingSize
             /\ written' = written \o Records(pendingWrites, r.positions)
             /\ lastOp' = OpResult("WriteAll", r.err, r.positions, NoBytes, r.syncs)
             /\ UNCHANGED threadVars /\ UNCHANGED <<options, nextTag, renameIds>>

OpenNewActiveSegment(io) ==
    LET r == OpenNewActiveSegmentBody(Wal, io)
    IN  /\ r.w.activeSegment.id <= MaxSegments
        /\ SetWal(r.w)
        /\ lastOp' = OpResult("OpenNewActiveSegment", r.err, <<>>, NoBytes, r.syncs)
        /\ UNCHANGED threadVars
        /\ UNCHANGED <<options, pendingWrites, pendingSize, nextTag, written, renameIds>>

Next ==
    \/ \E n \in Lens, io \in IOOutcomes : Write(Payload(nextTag, n), io)
    \/ \E n \in Lens : PendingWrites(Payload(nextTag, n))
    \/ ClearPendingWrites
    \/ \E io \in IOOutcomes : WriteAll(io)
    \/ \E io \in IOOutcomes : OpenNewActiveSegment(io)

Spec == Init /\ [][Next]_vars

\* Sync(): fsync of the active segment; bytesWrite is left as it is.
Sync(io) ==
    /\ SetWal(IF io = "sync" THEN Wal ELSE [Wal EXCEPT !.activeSegment = SegSync(@)])
    /\ lastOp' = OpResult("Sync", IF io = "sync" THEN "IoError" ELSE "nil",
                          <<>>, NoBytes, 1)
    /\ UNCHANGED threadVars
    /\ UNCHANGED <<options, pendingWrites, pendingSize, nextTag, written, renameIds>>

\* The single client with Sync among its calls.
NextSync ==
    \/ Next
    \/ \E io \in {"none", "sync"} : Sync(io)

SpecSync == Init /\ [][NextSync]_vars

\* -------------------------------------------------------------------- batch
\* Threads that stage payloads and commit the batch. PendingWrites and
\* ClearPendingWrites run under wal.pendingWritesLock; WriteAll takes wal.mu
\* and reads wal.pendingWrites and wal.pendingSize without the staging lock,
\* so each of its reads is a step of its own.

\* A thread's call in the batch specification: the payload it stages, or for
\* WriteAll its error, the pendingSize it checked, the batch it handed to the
\* segment and the batch its deferred ClearPendingWrites emptied.
NoBatchCall ==
    [op |-> "none", data |-> NoBytes, err |-> "nil", checked |-> 0,
     batch |-> <<>>, dropped |-> <<>>]

InitBatch ==
    /\ mu = 0
    /\ pc = [t \in Threads |-> "idle"]
    /\ call = [t \in Threads |-> NoBatchCall]
    /\ returned = <<>>
    /\ options \in OptionSet
    /\ activeSegment = openSegmentFile(initialSegmentFileID)
    /\ olderSegments = [id \in {} |-> openSegmentFile(id)]
    /\ bytesWrite = 0
    /\ pendingWrites = <<>>
    /\ pendingSize = 0
    /\ nextTag = 1
    /\ written = <<>>
    /\ lastOp = OpResult("Open", "nil", <<>>, NoBytes, 0)
    /\ renameIds = <<>>
    /\ dir = [n \in {SegmentFileName(options.DiskFileExtension, initialSegmentFileID)} |->
                 openSegmentFile(initialSegmentFileID)]

\* wal.pendingWritesLock is held by the thread that is inside PendingWrites.
pendingWritesLockHeld == \E t \in Threads : pc[t] = "stageAppend"

\* A thread calls PendingWrites(data).
StageCall(t, data) ==
    /\ pc[t] = "idle"
    /\ nextTag <= MaxPayloads
    /\ Len(pendingWrites) < MaxPending
    /\ nextTag' = nextTag + 1
    /\ call' = [call EXCEPT ![t] = [NoBatchCall EXCEPT !.op = "PendingWrites", !.data = data]]
    /\ pc' = [pc EXCEPT ![t] = "stage"]
    /\ UNCHANGED <<options, activeSegment, olderSegments, bytesWrite, pendingWrites,
                   pendingSize, written, lastOp, mu, returned, renameIds, dir>>

\* PendingWrites: the staging lock is taken and pendingSize grows.
StageSize(t) ==
    /\ pc[t] = "stage"
    /\ ~pendingWritesLockHeld
    /\ pendingSize' = pendingSize + maxDataWriteSize(SliceLen(call[t].data))
    /\ pc' = [pc EXCEPT ![t] = "stageAppend"]
    /\ UNCHANGED <<options, activeSegment, olderSegments, bytesWrite, pendingWrites,
                   nextTag, written, lastOp, mu, call, returned, renameIds, dir>>

\* PendingWrites: the payload is appended, the staging lock is released and
\* the call returns.
StageAppend(t) ==
    /\ pc[t] = "stageAppend"
    /\ pendingWrites' = Append(pendingWrites, call[t].data)
    /\ call' = [call EXCEPT ![t] = NoBatchCall]
    /\ pc' = [pc EXCEPT ![t] = "idle"]
    /\ UNCHANGED <<options, activeSegment, olderSegments, bytesWrite, pendingSize,
                   nextTag, written, lastOp, mu, returned, renameIds, dir>>

\* A thread calls WriteAll().
WriteAllCall(t) ==
    /\ pc[t] = "idle"
    /\ activeSegment.id < MaxSegments
    /\ call' = [call EXCEPT ![t] = [NoBatchCall EXCEPT !.op = "WriteAll"]]
    /\ pc' = [pc EXCEPT ![t] = "check"]
    /\ UNCHANGED <<options, activeSegment, olderSegments, bytesWrite, pendingWrites,
                   pendingSize, nextTag, written, lastOp, mu, returned, renameIds, dir>>

\* WriteAll: len(wal.pendingWrites) == 0 is tested before any lock is taken.
WriteAllCheck(t) ==
    /\ pc[t] = "check"
    /\ pc' = [pc EXCEPT ![t] = IF Len(pendingWrites) = 0 THEN "return" ELSE "lock"]
    /\ UNCHANGED <<options, activeSegment, olderSegments, bytesWrite, pendingWrites,
                   pendingSize, nextTag, written, lastOp, mu, call, returned, renameIds, dir>>

\* WriteAll: wal.mu.Lock()
WriteAllLock(t) ==
    /\ pc[t] = "lock"
    /\ mu = 0
    /\ mu' = t
    /\ pc' = [pc EXCEPT ![t] = "size"]
    /\ UNCHANGED <<options, activeSegment, olderSegments, bytesWrite, pendingWrites,
                   pendingSize, nextTag, written, lastOp, call, returned, renameIds, dir>>

\* WriteAll: the size check reads wal.pendingSize.
WriteAllSize(t) ==
    /\ pc[t] = "size"
    /\ call' = [call EXCEPT ![t].checked = pendingSize,
                            ![t].err = IF pendingSizeTooLarge(pendingSize)
                                       THEN "ErrPendingSizeTooLarge" ELSE "nil"]
    /\ pc' = [pc EXCEPT ![t] = IF pendingSizeTooLarge(pendingSize) THEN "clear" ELSE "rotate"]
    /\ UNCHANGED <<options, activeSegment, olderSegments, bytesWrite, pendingWrites,
                   pendingSize, nextTag, written, lastOp, mu, returned, renameIds, dir>>

\* WriteAll: the rotation check reads wal.pendingSize again and rotates.
WriteAllRotate(t) ==
    /\ pc[t] = "rotate"
    /\ IF pendingIsFull(Wal, pendingSize)
       THEN SetWal(rotateActiveSegment(Wal, "none").w)
       ELSE UNCHANGED <<activeSegment, olderSegments, bytesWrite, dir>>
    /\ pc' = [pc EXCEPT ![t] = "append"]
    /\ UNCHANGED <<options, pendingWrites, pendingSize, nextTag, written, lastOp, mu,
                   call, returned, renameIds>>

\* WriteAll: wal.pendingWrites, as it is now, goes to the active segment.
WriteAllAppend(t) ==
    LET r == writeAllToActive(Wal, pendingWrites, "none", 0)
    IN  /\ pc[t] = "append"
        /\ SetWal(r.w)
        /\ written' = written \o Records(pendingWrites, r.positions)
        /\ call' = [call EXCEPT ![t].batch = pendingWrites]
        /\ pc' = [pc EXCEPT ![t] = "clear"]
        /\ UNCHANGED <<options, pendingWrites, pendingSize, nextTag, lastOp, mu,
                       returned, renameIds>>

\* WriteAll: the deferred ClearPendingWrites, under the staging lock.
WriteAllClear(t) ==
    /\ pc[t] = "clear"
    /\ ~pendingWritesLockHeld
    /\ call' = [call EXCEPT ![t].dropped = pendingWrites]
    /\ pendingWrites' = clearedPending.pendingWrites
    /\ pendingSize' = clearedPending.pendingSize
    /\ pc' = [pc EXCEPT ![t] = "unlock"]
    /\ UNCHANGED <<options, activeSegment, olderSegments, bytesWrite, nextTag, written,
                   lastOp, mu, returned, renameIds, dir>>

\* WriteAll: the deferred wal.mu.Unlock()
WriteAllUnlock(t) ==
    /\ pc[t] = "unlock"
    /\ mu = t
    /\ mu' = 0
    /\ pc' = [pc EXCEPT ![t] = "return"]
    /\ UNCHANGED <<options, activeSegment, olderSegments, bytesWrite, pendingWrites,
                   pendingSize, nextTag, written, lastOp, call, returned, renameIds, dir>>

\* The caller has the result of its WriteAll.
WriteAllReturned(t) ==
    /\ pc[t] = "return"
    /\ call' = [call EXCEPT ![t] = NoBatchCall]
    /\ pc' = [pc EXCEPT ![t] = "idle"]
    /\ UNCHANGED <<options, activeSegment, olderSegments, bytesWrite, pendingWrites,
                   pendingSize, nextTag, written, lastOp, mu, returned, renameIds, dir>>

NextBatch ==
    \/ \E t \in Threads, n \in Lens : StageCall(t, Payload(nextTag, n))
    \/ \E t \in Threads : StageSize(t)
    \/ \E t \in Threads : StageAppend(t)
    \/ \E t \in Threads : WriteAllCall(t)
    \/ \E t \in Threads : WriteAllCheck(t)
    \/ \E t \in Threads : WriteAllLock(t)
    \/ \E t \in Threads : WriteAllSize(t)
    \/ \E t \in Threads : WriteAllRotate(t)
    \/ \E t \in Threads : WriteAllAppend(t)
    \/ \E t \in Threads : WriteAllClear(t)
    \/ \E t \in Threads : WriteAllUnlock(t)
    \/ \E t \in Threads : WriteAllReturned(t)

SpecBatch == InitBatch /\ [][NextBatch]_vars

\* ---------------------------------------------------------------- lifecycle

\* The orders in which a range over a map with the given keys visits them.
Orders(ids) ==
    { f \in [1..Cardinality(ids) -> ids] : \A i, j \in DOMAIN f : f[i] = f[j] => i = j }

\* Close(): order is the order in which the range over olderSegments visits
\* the segments; the call to segment.Close() number fail returns an error
\* (none when fail is 0), the last call being that of the active segment.
Close(order, fail) ==
    /\ Len(renameIds) < MaxSegments
    /\ IF fail \in 1..Len(order)
       THEN /\ olderSegments' =
                   [id \in DOMAIN olderSegments |->
                       IF \E i \in 1..(fail - 1) : order[i] = id
                       THEN SegClose(olderSegments[id])
                       ELSE olderSegments[id]]
            /\ renameIds' = renameIds \o SubSeq(order, 1, fail - 1)
            /\ UNCHANGED activeSegment
       ELSE /\ olderSegments' = [id \in {} |-> openSegmentFile(id)]
            /\ renameIds' = (renameIds \o order) \o <<activeSegment.id>>
            /\ activeSegment' = IF fail = 0 THEN SegClose(activeSegment) ELSE activeSegment
    /\ lastOp' = OpResult("Close", IF fail = 0 THEN "nil" ELSE "IoError", <<>>, NoBytes, 0)
    /\ UNCHANGED threadVars
    /\ UNCHANGED <<options, bytesWrite, pendingWrites, pendingSize, nextTag, written, dir>>

\* The loop of RenameFileExt over ids: os.Rename of each file from extension
\* old to extension ext, stopping at the first one that fails (a file that is
\* not there under its old name).
RECURSIVE renameFiles(_, _, _, _)
renameFiles(d, ids, old, ext) ==
    IF ids = <<>>
    THEN [err |-> "nil", dir |-> d]
    ELSE LET oldName == SegmentFileName(old, Head(ids))
             newName == SegmentFileName(ext, Head(ids))
         IN  IF oldName \notin DOMAIN d
             THEN [err |-> "IoError", dir |-> d]
             ELSE renameFiles([n \in (DOMAIN d \ {oldName}) \cup {newName} |->
                                  IF n = newName THEN d[oldName] ELSE d[n]],
                              Tail(ids), old, ext)

\* RenameFileExt(ext), called after Close has recorded the ids.
RenameFileExt(ext) ==
    LET r == renameFiles(dir, renameIds, options.DiskFileExtension, ext)
    IN  /\ renameIds # <<>>
        /\ dir' = r.dir
        /\ options' = IF r.err = "nil"
                      THEN [options EXCEPT !.DiskFileExtension = ext]
                      ELSE options
        /\ lastOp' = OpResult("RenameFileExt", r.err, <<>>, NoBytes, 0)
        /\ UNCHANGED threadVars
        /\ UNCHANGED <<activeSegment, olderSegments, bytesWrite, pendingWrites,
                       pendingSize, nextTag, written, renameIds>>

\* The lowest of the ids.
lowestId(ids) == CHOOSE x \in ids : \A y \in ids : x <= y

\* The id Open makes the active segment: the last of the sorted ids.
activeId(ids) == CHOOSE x \in ids : \A y \in ids : y <= x

\* The WAL that Open(options) builds from the files of directory d.
OpenBody(d) ==
    LET ids == { n[1] : n \in { m \in DOMAIN d : m[2] = options.DiskFileExtension } }
        file(id) == d[SegmentFileName(options.DiskFileExtension, id)]
    IN  IF ids = {}
        THEN [activeSegment |-> openSegmentFile(initialSegmentFileID),
              olderSegments |-> [id \in {} |-> openSegmentFile(id)],
              bytesWrite |-> 0]
        ELSE [activeSegment |-> reopenSegmentFile(file(activeId(ids))),
              olderSegments |-> [id \in ids \ {activeId(ids)} |-> reopenSegmentFile(file(id))],
              bytesWrite |-> 0]

\* Open(options) on the directory of a WAL whose Close has closed the active
\* segment, with the options that WAL holds.
Reopen ==
    /\ activeSegment.closed
    /\ SetWal(OpenBody(dir))
    /\ pendingWrites' = <<>>
    /\ pendingSize' = 0
    /\ renameIds' = <<>>
    /\ lastOp' = OpResult("Open", "nil", <<>>, NoBytes, 0)
    /\ UNCHANGED threadVars
    /\ UNCHANGED <<options, nextTag, written>>

\* The calls of the client while the WAL is in use, none of them failing in
\* a system call.
Use ==
    \/ \E n \in Lens : Write(Payload(nextTag, n), "none")
    \/ \E n \in Lens : PendingWrites(Payload(nextTag, n))
    \/ WriteAll("none")
    \/ OpenNewActiveSegment("none")

\* The single client over the life of the directory: it uses the WAL,
\* closes it, and opens the directory again.
NextLife ==
    \/ renameIds = <<>> /\ Use
    \/ \E order \in Orders(DOMAIN olderSegments) : Close(order, 0)
    \/ Reopen

SpecLife == Init /\ [][NextLife]_vars

\* The single client that closes and renames: it writes and rotates until
\* Close has recorded an id, then closes again (a Close may fail at any of its
\* calls) or renames to another extension.
NextClose ==
    \/ /\ renameIds = <<>>
       /\ \/ \E n \in Lens : Write(Payload(nextTag, n), "none")
          \/ OpenNewActiveSegment("none")
    \/ \E order \in Orders(DOMAIN olderSegments),
          fail \in 0..(Cardinality(DOMAIN olderSegments) + 1) : Close(order, fail)
    \/ \E ext \in Exts \ {options.DiskFileExtension} : RenameFileExt(ext)

SpecClose == Init /\ [][NextClose]_vars

\* ------------------------------------------------------------------ threads
\* Threads calling Write concurrently. The body of Write runs between
\* wal.mu.Lock() and the deferred wal.mu.Unlock().

\* A thread calls Write(data).
WriteCall(t, data) ==
    /\ pc[t] = "idle"
    /\ nextTag <= MaxPayloads
    /\ nextTag' = nextTag + 1
    /\ call' = [call EXCEPT ![t] = [NoCall EXCEPT !.data = data, !.seen = Len(returned)]]
    /\ pc' = [pc EXCEPT ![t] = "lock"]
    /\ UNCHANGED <<options, activeSegment, olderSegments, bytesWrite, pendingWrites,
                   pendingSize, written, lastOp, mu, returned, renameIds, dir>>

\* wal.mu.Lock()
WriteLock(t) ==
    /\ pc[t] = "lock"
    /\ mu = 0
    /\ mu' = t
    /\ pc' = [pc EXCEPT ![t] = "body"]
    /\ UNCHANGED <<options, activeSegment, olderSegments, bytesWrite, pendingWrites,
                   pendingSize, nextTag, written, lastOp, call, returned, renameIds, dir>>

\* The body of Write, run by the thread that holds the lock.
WriteLocked(t, io) ==
    LET r == WriteBody(Wal, call[t].data, io)
    IN  /\ pc[t] = "body"
        /\ mu = t
        /\ r.w.activeSegment.id <= MaxSegments
        /\ SetWal(r.w)
        /\ written' = IF r.err = "nil"
                      THEN Append(written, [data |-> call[t].data, pos |-> r.pos])
                      ELSE written
        /\ call' = [call EXCEPT ![t].err = r.err, ![t].pos = r.pos]
        /\ pc' = [pc EXCEPT ![t] = "unlock"]
        /\ UNCHANGED <<options, pendingWrites, pendingSize, nextTag, lastOp, mu, returned,
                       renameIds>>

\* The deferred wal.mu.Unlock()
WriteUnlock(t) ==
    /\ pc[t] = "unlock"
    /\ mu = t
    /\ mu' = 0
    /\ pc' = [pc EXCEPT ![t] = "return"]
    /\ UNCHANGED <<options, activeSegment, olderSegments, bytesWrite, pendingWrites,
                   pendingSize, nextTag, written, lastOp, call, returned, renameIds, dir>>

\* The caller has the result of its Write.
WriteReturned(t) ==
    /\ pc[t] = "return"
    /\ returned' = Append(returned, [err |-> call[t].err, pos |-> call[t].pos,
                                     seen |-> call[t].seen])
    /\ call' = [call EXCEPT ![t] = NoCall]
    /\ pc' = [pc EXCEPT ![t] = "idle"]
    /\ UNCHANGED <<options, activeSegment, olderSegments, bytesWrite, pendingWrites,
                   pendingSize, nextTag, written, lastOp, mu, renameIds, dir>>

NextConc ==
    \/ \E t \in Threads, n \in Lens : WriteCall(t, Payload(nextTag, n))
    \/ \E t \in Threads : WriteLock(t)
    \/ \E t \in Threads, io \in IOOutcomes : WriteLocked(t, io)
    \/ \E t \in Threads : WriteUnlock(t)
    \/ \E t \in Threads : WriteReturned(t)

SpecConc == Init /\ [][NextConc]_vars

\* ------------------------------------------------------------------ rw lock
\* Threads that call Write and NewReaderWithStart on wal.mu as a
\* sync.RWMutex: a writer that has called Lock() and waits for the readers to
\* leave blocks every later RLock(). The read locks a thread holds follow
\* from where it is in NewReaderWithStart.

\* The read locks of wal.mu that thread t holds.
readLocks(t) ==
    CASE pc[t] = "rlockInner" -> 1
      [] pc[t] = "inner" -> 2
      [] pc[t] = "seek" -> 1
      [] OTHER -> 0

\* A writer has called wal.mu.Lock() and has not got the lock yet.
writerPending == \E t \in Threads : pc[t] = "lockWait"

\* RLock() returns at once: no writer holds the lock or waits for it.
canRLock == mu = 0 /\ ~writerPending

\* Lock() returns: no writer holds the lock and no reader holds a read lock.
canLock == mu = 0 /\ \A t \in Threads : readLocks(t) = 0

\* A thread calls NewReaderWithStart(startPos) with a position that is not nil.
ReaderCall(t) ==
    /\ pc[t] = "idle"
    /\ pc' = [pc EXCEPT ![t] = "rlockOuter"]
    /\ UNCHANGED <<options, activeSegment, olderSegments, bytesWrite, pendingWrites,
                   pendingSize, nextTag, written, lastOp, mu, call, returned, renameIds, dir>>

\* NewReaderWithStart: wal.mu.RLock()
RLockOuter(t) ==
    /\ pc[t] = "rlockOuter"
    /\ canRLock
    /\ pc' = [pc EXCEPT ![t] = "rlockInner"]
    /\ UNCHANGED <<options, activeSegment, olderSegments, bytesWrite, pendingWrites,
                   pendingSize, nextTag, written, lastOp, mu, call, returned, renameIds, dir>>

\* NewReaderWithStart calls NewReader, whose NewReaderWithMax calls
\* wal.mu.RLock() again.
RLockInner(t) ==
    /\ pc[t] = "rlockInner"
    /\ canRLock
    /\ pc' = [pc EXCEPT ![t] = "inner"]
    /\ UNCHANGED <<options, activeSegment, olderSegments, bytesWrite, pendingWrites,
                   pendingSize, nextTag, written, lastOp, mu, call, returned, renameIds, dir>>

\* NewReaderWithMax builds the reader and its deferred RUnlock() runs.
ReaderBuilt(t) ==
    /\ pc[t] = "inner"
    /\ pc' = [pc EXCEPT ![t] = "seek"]
    /\ UNCHANGED <<options, activeSegment, olderSegments, bytesWrite, pendingWrites,
                   pendingSize, nextTag, written, lastOp, mu, call, returned, renameIds, dir>>

\* The loop of NewReaderWithStart ends, its deferred RUnlock() runs and the
\* call returns.
ReaderReturned(t) ==
    /\ pc[t] = "seek"
    /\ pc' = [pc EXCEPT ![t] = "idle"]
    /\ UNCHANGED <<options, activeSegment, olderSegments, bytesWrite, pendingWrites,
                   pendingSize, nextTag, written, lastOp, mu, call, returned, renameIds, dir>>

\* Write: wal.mu.Lock() is called; the writer waits from now on.
LockRequest(t) ==
    /\ pc[t] = "lock"
    /\ pc' = [pc EXCEPT ![t] = "lockWait"]
    /\ UNCHANGED <<options, activeSegment, olderSegments, bytesWrite, pendingWrites,
                   pendingSize, nextTag, written, lastOp, mu, call, returned, renameIds, dir>>

\* Write: wal.mu.Lock() returns.
LockAcquire(t) ==
    /\ pc[t] = "lockWait"
    /\ canLock
    /\ mu' = t
    /\ pc' = [pc EXCEPT ![t] = "body"]
    /\ UNCHANGED <<options, activeSegment, olderSegments, bytesWrite, pendingWrites,
                   pendingSize, nextTag, written, lastOp, call, returned, renameIds, dir>>

NextLock ==
    \/ \E t \in Threads, n \in Lens : WriteCall(t, Payload(nextTag, n))
    \/ \E t \in Threads : LockRequest(t)
    \/ \E t \in Threads : LockAcquire(t)
    \/ \E t \in Threads : WriteLocked(t, "none")
    \/ \E t \in Threads : WriteUnlock(t)
    \/ \E t \in Threads : WriteReturned(t)
    \/ \E t \in Threads : ReaderCall(t)
    \/ \E t \in Threads : RLockOuter(t)
    \/ \E t \in Threads : RLockInner(t)
    \/ \E t \in Threads : ReaderBuilt(t)
    \/ \E t \in Threads : ReaderReturned(t)

SpecLock == Init /\ [][NextLock]_vars


\* ------------------------------------------------------------------- claims

\* (segment_id, block_number, chunk_offset) of a position.
Locus(pos) == <<pos.SegmentId, pos.BlockNumber, pos.ChunkOffset>>

\* Lexicographic order of positions.
PosLess(p, q) ==
    \/ p.SegmentId < q.SegmentId
    \/ p.SegmentId = q.SegmentId /\ p.BlockNumber < q.BlockNumber
    \/ p.SegmentId = q.SegmentId /\ p.BlockNumber = q.BlockNumber
       /\ p.ChunkOffset < q.ChunkOffset

AllSegments == {activeSegment} \cup {olderSegments[id] : id \in DOMAIN olderSegments}

\* The records whose first chunk is in the segment.
RecordsIn(seg) ==
    Cardinality({ i \in DOMAIN seg.chunks : seg.chunks[i].type \in {"FULL", "FIRST"} })

RECURSIVE RecordsInAll(_)
RecordsInAll(segs) ==
    IF segs = {}
    THEN 0
    ELSE LET seg == CHOOSE x \in segs : TRUE
         IN  RecordsIn(seg) + RecordsInAll(segs \ {seg})

\* Every record of the log was appended by a write that returned its position.
AllWritesSucceeded == RecordsInAll(AllSegments) = Len(written)

\* The tail of the segment with the given id (of its file, when the segment
\* is not open yet).
TailOf(w, id) ==
    IF id = w.activeSegment.id
    THEN <<w.activeSegment.currentBlockNumber, w.activeSegment.currentBlockSize>>
    ELSE IF id \in DOMAIN w.olderSegments
    THEN <<w.olderSegments[id].currentBlockNumber, w.olderSegments[id].currentBlockSize>>
    ELSE <<0, 0>>

\* C1: Read of every position returned so far returns the payload of the
\* write that returned it, in the active segment and in the older ones.
C1_RoundTrip ==
    \A i \in DOMAIN written :
        /\ Read(Wal, written[i].pos).err = "nil"
        /\ Read(Wal, written[i].pos).data = written[i].data

\* A record of two or more chunks, written to a segment that has since moved
\* to the older map, is read back.
C1_Witness ==
    \E i \in DOMAIN written :
        /\ written[i].pos.SegmentId \in DOMAIN olderSegments
        /\ written[i].pos.ChunkSize > chunkHeaderSize + SliceLen(written[i].data)
        /\ Read(Wal, written[i].pos).data = written[i].data

\* C2: a successful Write returns a position strictly greater than the
\* position of every successful Write that had returned when it was called,
\* and no two successful Writes return the same position.
C2_Linearizable ==
    \A j \in DOMAIN returned :
        returned[j].err = "nil" =>
            /\ \A i \in 1..returned[j].seen :
                   returned[i].err = "nil" => PosLess(returned[i].pos, returned[j].pos)
            /\ \A i \in DOMAIN returned :
                   (i # j /\ returned[i].err = "nil")
                       => Locus(returned[i].pos) # Locus(returned[j].pos)

\* Two successful Writes have returned, the second of them called before the
\* first had returned, with a rotation between their appends.
C2_Witness ==
    /\ Len(returned) >= 2
    /\ \E i, j \in DOMAIN returned :
           /\ i < j
           /\ returned[j].seen < i
           /\ returned[i].err = "nil" /\ returned[j].err = "nil"
           /\ returned[i].pos.SegmentId # returned[j].pos.SegmentId

\* C3: when every write succeeded, a reader from NewReader() yields on
\* successive Next() calls the written (payload, position) pairs in write
\* order, over all segments, and then EOF.
C3_IterationComplete ==
    AllWritesSucceeded =>
        /\ Iterate(Wal, NewReader(Wal)).records = written
        /\ Iterate(Wal, NewReader(Wal)).err = "EOF"

\* Two records in two segments, the first segment ending in an EOF of its
\* reader, are iterated in order.
C3_Witness ==
    /\ AllWritesSucceeded
    /\ Len(written) = 2
    /\ written[1].pos.SegmentId < written[2].pos.SegmentId
    /\ Iterate(Wal, NewReader(Wal)).records = written

\* C4: at the end of every successful Write and WriteAll the active segment
\* is no larger than SegmentSize.
C4_RotationBound ==
    (lastOp.op \in {"Write", "WriteAll"} /\ lastOp.err = "nil")
        => Size(activeSegment) <= options.SegmentSize

\* C5: the active segment is not in the older map, its id is greater than
\* every older id, and the ids are 1..active.id without a gap.
C5_SegmentIds ==
    /\ activeSegment.id \notin DOMAIN olderSegments
    /\ \A id \in DOMAIN olderSegments : id < activeSegment.id
    /\ DOMAIN olderSegments \cup {activeSegment.id} = 1..activeSegment.id
    /\ \A id \in DOMAIN olderSegments : olderSegments[id].id = id

\* A rotation has failed after an earlier rotation succeeded.
C5_Witness ==
    /\ lastOp.op \in {"Write", "WriteAll", "OpenNewActiveSegment"}
    /\ lastOp.err = "IoError"
    /\ lastOp.syncs = 1
    /\ DOMAIN olderSegments # {}

\* C6: a successful WriteAll returns one position per staged payload, in
\* staging order, all in the segment that is active when it returns, and Read
\* of the i-th position returns the i-th staged payload.
C6_WriteAllPositions ==
    [][ (lastOp'.op = "WriteAll" /\ lastOp'.err = "nil") =>
            /\ Len(lastOp'.positions) = Len(pendingWrites)
            /\ \A i \in DOMAIN pendingWrites :
                   /\ lastOp'.positions[i].SegmentId = activeSegment'.id
                   /\ Read(Wal', lastOp'.positions[i]).err = "nil"
                   /\ Read(Wal', lastOp'.positions[i]).data = pendingWrites[i]
                   /\ \A j \in DOMAIN pendingWrites :
                          i < j => PosLess(lastOp'.positions[i], lastOp'.positions[j])
      ]_vars

\* A WriteAll that rotated has returned the positions of a batch, and a
\* WriteAll has returned two positions.
C6_Witness ==
    /\ lastOp.op = "WriteAll"
    /\ lastOp.err = "nil"
    /\ Len(lastOp.positions) = 2
    /\ lastOp.positions[2].ChunkSize > 2 * chunkHeaderSize + 10

\* C7: whenever WriteAll returns, the staged batch is empty and its size is 0;
\* a WriteAll on an empty batch returns no position and writes nothing.
C7_PendingDrained ==
    [][ lastOp'.op = "WriteAll" =>
            /\ pendingWrites' = <<>>
            /\ pendingSize' = 0
            /\ pendingWrites = <<>> =>
                   /\ lastOp'.positions = <<>>
                   /\ lastOp'.err = "nil"
                   /\ UNCHANGED <<activeSegment, olderSegments, bytesWrite>>
      ]_vars

\* A WriteAll of a staged batch has failed in a system call.
C7_Witness ==
    /\ lastOp.op = "WriteAll"
    /\ lastOp.err = "IoError"
    /\ pendingWrites = <<>>
    /\ nextTag > 1

\* C8: a Write of a payload with H + len > SegmentSize returns
\* DataSizeTooLarge, rotates nothing, appends nothing, syncs nothing and
\* leaves bytesWrite and the staged batch alone.
C8_DataSizeTooLarge ==
    [][ (lastOp'.op = "Write"
         /\ SliceLen(lastOp'.data) + chunkHeaderSize > options.SegmentSize) =>
            /\ lastOp'.err = "ErrDataSizeTooLarge"
            /\ lastOp'.syncs = 0
            /\ UNCHANGED <<activeSegment, olderSegments, bytesWrite,
                           pendingWrites, pendingSize>>
      ]_vars

\* A Write was rejected for its size on a WAL that holds a record.
C8_Witness ==
    /\ lastOp.op = "Write"
    /\ lastOp.err = "ErrDataSizeTooLarge"
    /\ activeSegment.chunks # <<>>

\* C9: a WriteAll of a non-empty batch with pending_size > SegmentSize returns
\* PendingSizeTooLarge, rotates nothing and appends nothing; only the staged
\* batch changes, which is cleared.
C9_PendingSizeTooLarge ==
    [][ (lastOp'.op = "WriteAll" /\ pendingWrites # <<>>
         /\ pendingSize > options.SegmentSize) =>
            /\ lastOp'.err = "ErrPendingSizeTooLarge"
            /\ lastOp'.syncs = 0
            /\ pendingWrites' = <<>>
            /\ pendingSize' = 0
            /\ UNCHANGED <<activeSegment, olderSegments, bytesWrite>>
      ]_vars

\* A batch was rejected for its size on a WAL whose active segment holds a
\* record.
C9_Witness ==
    /\ lastOp.op = "WriteAll"
    /\ lastOp.err = "ErrPendingSizeTooLarge"
    /\ Size(activeSegment) > 0

\* C10: when Write returns an error, the tail of the segment that is active
\* at the return is what it was before the call.
C10_FailedWriteKeepsTail ==
    [][ (lastOp'.op = "Write" /\ lastOp'.err # "nil") =>
            TailOf(Wal', activeSegment'.id) = TailOf(Wal, activeSegment'.id)
      ]_vars


\* C16: when every write succeeded, the reader of NewReaderWithStart(p), for
\* a position p returned by a write, yields exactly the records from the one
\* at p on, in log order.
C16_ReaderWithStart ==
    AllWritesSucceeded =>
        \A i \in DOMAIN written :
            /\ NewReaderWithStart(Wal, written[i].pos).err = "nil"
            /\ Iterate(Wal, NewReaderWithStart(Wal, written[i].pos).reader).records
                   = SubSeq(written, i, Len(written))

\* The reader was started at the second of two records, which lies in a later
\* block than the first, at the same or a smaller chunk offset, or in a later
\* segment behind a segment that holds a record.
C16_Witness ==
    /\ AllWritesSucceeded
    /\ Len(written) = 2
    /\ \/ /\ written[2].pos.SegmentId = written[1].pos.SegmentId
          /\ written[2].pos.BlockNumber > written[1].pos.BlockNumber
          /\ written[2].pos.ChunkOffset <= written[1].pos.ChunkOffset
       \/ written[2].pos.SegmentId > written[1].pos.SegmentId
    /\ Iterate(Wal, NewReaderWithStart(Wal, written[2].pos).reader).records
           = <<written[2]>>

\* C17: a successful OpenNewActiveSegment leaves the previous active segment
\* synced and in the older map, a new empty active segment with the next id,
\* and bytesWrite 0; a failed one leaves the active segment and the older map
\* as they were.
C17_ForcedRotation ==
    [][ lastOp'.op = "OpenNewActiveSegment" =>
            IF lastOp'.err = "nil"
            THEN /\ activeSegment'.id = activeSegment.id + 1
                 /\ Size(activeSegment') = 0
                 /\ olderSegments' = MapPut(olderSegments, activeSegment.id,
                                            SegSync(activeSegment))
                 /\ bytesWrite' = 0
            ELSE /\ activeSegment'.id = activeSegment.id
                 /\ activeSegment'.chunks = activeSegment.chunks
                 /\ olderSegments' = olderSegments
      ]_vars

\* The positions NewReaderWithStart is called with: every block and the chunk
\* offsets 0 and one header, in the segments up to the one after the active.
StartPositions ==
    [SegmentId : 1..(activeSegment.id + 1), BlockNumber : 0..2,
     ChunkOffset : {0, chunkHeaderSize}, ChunkSize : {0}]

\* C19: for every start position that is not nil, NewReaderWithStart returns
\* a reader or an error and never indexes past the last segment reader.
C19_ReaderIndexInRange ==
    \A p \in StartPositions : NewReaderWithStart(Wal, p).err # "IndexOutOfRange"


\* Bytes of segment seg that no fsync covers.
Unsynced(seg) == Size(seg) - seg.syncedSize

\* A successful Write has just returned, with DiskFlushSync off and
\* BytesPerSync > 0.
WriteDoneBytesPerSync ==
    /\ lastOp.op = "Write"
    /\ lastOp.err = "nil"
    /\ ~options.DiskFlushSync
    /\ options.BytesPerSync > 0

\* C11 as stated: with DiskFlushSync off and BytesPerSync > 0, after every
\* successful Write the bytes appended to the active segment since its last
\* fsync are fewer than BytesPerSync.
C11_UnsyncedBelowBytesPerSync ==
    WriteDoneBytesPerSync => Unsynced(activeSegment) < options.BytesPerSync

\* C11, amended: with DiskFlushSync off and BytesPerSync > 0, after every
\* successful Write the counter bytesWrite is below BytesPerSync, and a Write
\* that synced after its append leaves bytesWrite 0.
C11_CounterBelowBytesPerSync ==
    WriteDoneBytesPerSync =>
        /\ bytesWrite < options.BytesPerSync
        /\ Unsynced(activeSegment) = 0 => bytesWrite = 0

\* A Write whose append took bytesWrite to BytesPerSync or more has synced.
C11_Witness ==
    /\ WriteDoneBytesPerSync
    /\ lastOp.syncs = 1
    /\ Len(activeSegment.chunks) > 1
    /\ Unsynced(activeSegment) = 0
    /\ bytesWrite = 0

\* C13: IsEmpty is true right after Open of an empty directory and false in
\* every state after a successful Write, whatever calls follow; it is the
\* test "no older segment and active.Size() = 0".
C13_IsEmpty ==
    /\ lastOp.op = "Open" => IsEmpty(Wal)
    /\ written # <<>> => ~IsEmpty(Wal)
    /\ IsEmpty(Wal) <=> (DOMAIN olderSegments = {} /\ Size(activeSegment) = 0)

\* After a write and a rotation the active segment is empty and the WAL is
\* not.
C13_Witness ==
    /\ written # <<>>
    /\ Size(activeSegment) = 0
    /\ ~IsEmpty(Wal)

\* C18: every older segment is synced whole, a segment in the older map never
\* changes or leaves it, and after a successful Sync no segment has an
\* unsynced byte.
C18_OlderDurable ==
    [][ /\ \A id \in DOMAIN olderSegments' : Unsynced(olderSegments'[id]) = 0
        /\ \A id \in DOMAIN olderSegments :
               /\ id \in DOMAIN olderSegments'
               /\ olderSegments'[id] = olderSegments[id]
        /\ (lastOp'.op = "Sync" /\ lastOp'.err = "nil") =>
               \A seg \in {activeSegment'} \cup
                          {olderSegments'[id] : id \in DOMAIN olderSegments'} :
                   Unsynced(seg) = 0
      ]_vars

\* A segment holding a record is in the older map, and Sync has returned nil
\* while the active segment holds a record too.
C18_Witness ==
    /\ lastOp.op = "Sync"
    /\ lastOp.err = "nil"
    /\ \E id \in DOMAIN olderSegments : olderSegments[id].chunks # <<>>
    /\ activeSegment.chunks # <<>>


\* The ids of the segment files that carry the extension of the options.
FileIds == { n[1] : n \in { m \in DOMAIN dir : m[2] = options.DiskFileExtension } }

\* C12: after writes that all succeeded, a Close and an Open of the same
\* directory with the same options, NewReader yields the written (payload,
\* position) pairs in write order, the active segment is the one with the
\* highest id, and every position returned so far is readable.
C12_ReopenIdempotent ==
    (lastOp.op = "Open" /\ AllWritesSucceeded) =>
        /\ Iterate(Wal, NewReader(Wal)).records = written
        /\ Iterate(Wal, NewReader(Wal)).err = "EOF"
        /\ \A id \in FileIds : id <= activeSegment.id
        /\ DOMAIN olderSegments = FileIds \ {activeSegment.id}
        /\ \A i \in DOMAIN written :
               /\ Read(Wal, written[i].pos).err = "nil"
               /\ Read(Wal, written[i].pos).data = written[i].data

\* The directory was opened again with records in an older segment and in
\* the active one.
C12_Witness ==
    /\ lastOp.op = "Open"
    /\ Len(written) = 2
    /\ written[1].pos.SegmentId \in DOMAIN olderSegments
    /\ written[2].pos.SegmentId = activeSegment.id
    /\ Iterate(Wal, NewReader(Wal)).records = written

\* C20: once Close has closed the active segment, after any sequence of
\* Close calls, renameIds holds the id of every segment file exactly once;
\* RenameFileExt then returns nil and leaves every file with the extension
\* the options hold.
C20_RenameBookkeeping ==
    /\ activeSegment.closed =>
           \A id \in { n[1] : n \in DOMAIN dir } :
               Cardinality({ i \in DOMAIN renameIds : renameIds[i] = id }) = 1
    /\ lastOp.op = "RenameFileExt" =>
           /\ lastOp.err = "nil"
           /\ \A n \in DOMAIN dir : n[2] = options.DiskFileExtension


\* The sum of maxDataWriteSize over the payloads of a batch.
RECURSIVE BatchSize(_)
BatchSize(payloads) ==
    IF payloads = <<>>
    THEN 0
    ELSE maxDataWriteSize(SliceLen(Head(payloads))) + BatchSize(Tail(payloads))

\* C14: a WriteAll that returns nil has cleared exactly the payloads it
\* wrote, so that no staged payload is discarded unwritten, and the batch it
\* wrote is the batch whose size it checked.
C14_BatchCommit ==
    \A t \in Threads :
        (call[t].op = "WriteAll" /\ call[t].err = "nil" /\ pc[t] = "unlock") =>
            /\ call[t].dropped = call[t].batch
            /\ call[t].checked = BatchSize(call[t].batch)


\* Thread t is inside a call and waits for wal.mu.
WaitsForLock(t) == pc[t] \in {"lockWait", "rlockOuter", "rlockInner"}

\* Thread t is inside a call and its next step can be taken.
CanStep(t) ==
    CASE pc[t] = "idle" -> FALSE
      [] pc[t] = "lockWait" -> canLock
      [] pc[t] \in {"rlockOuter", "rlockInner"} -> canRLock
      [] OTHER -> TRUE

\* C15: no reachable state is a deadlock: whenever a thread waits for wal.mu,
\* some thread that is inside a call can take its next step.
C15_NoDeadlock ==
    (\E t \in Threads : WaitsForLock(t)) => \E t \in Threads : CanStep(t)

====
